---------------------------- MODULE Spec2Model ----------------------------
(***************************************************************************)
(* CertNode: analysis-and-certification pipeline (CDP, FRAME, STRIDE,      *)
(* score/gate, ICS certificate generator) and the vault ledger.            *)
(*                                                                         *)
(* Numbers.  Every score of the program is a float in [0,1].  The model    *)
(* represents the real number x by the integer x * SCALE and computes      *)
(* with exact rational arithmetic: SCALE is chosen so that every division  *)
(* the analyzers perform (means over up to 5 paragraphs, /3, /2, the       *)
(* weights 0.4 0.35 0.3 0.25 0.2) is exact.  Per-paragraph scores are      *)
(* given in tenths.  Floating-point rounding is not modelled.              *)
(*                                                                         *)
(* Text.  A content is a text; the model keeps of it what the code reads:  *)
(* whether its stripped length is below 100 characters, the sequence of    *)
(* its paragraphs (each one of the paragraph kinds below, i.e. the feature *)
(* vector the per-paragraph text scans produce for it) and a variant       *)
(* number that tells apart texts with the same feature vectors.            *)
(*                                                                         *)
(* Hashes.  SHA-256 is modelled as collision free: the digest of a         *)
(* structure is the tagged structure itself, and the digest of a content   *)
(* is a fixed-length digit string that encodes the content injectively     *)
(* (the drift severity compares digests digit by digit).                   *)
(*                                                                         *)
(* Time.  A timestamp is a pair (day, tick).  tick orders the clock reads  *)
(* of different calls: consecutive certification runs are separated by     *)
(* synchronous log and output file writes, so a later call always reads a  *)
(* later clock value than the metadata of an earlier certificate.  The     *)
(* behaviours of Spec all lie within one day.                              *)
(***************************************************************************)
EXTENDS Integers, Sequences, FiniteSets, TLC

(* ------------------------------ bounds -------------------------------- *)
MaxParas == 3        \* qualifying paragraphs per analysed text
MaxVariant == 1      \* text variants per feature vector: 0..MaxVariant
MaxCerts == 2        \* certificates issued in one behaviour
MaxAlerts == 2       \* drift alerts persisted in one behaviour

(* -------------------------- program constants ------------------------- *)
SCALE == 360 * 1000
MIN_PARAGRAPH_MASS == 50
CERTIFICATION_THRESHOLD == (7 * SCALE) \div 10
CONVERGENCE_THRESHOLD == (6 * SCALE) \div 10
SEVERE_DRIFT == (7 * SCALE) \div 10
MAX_AGE_DAYS == 365 * 5
CERTNODE_VERSION == "v1.0.0"
HASH_ALGORITHM == "sha256"
OPERATOR == "SRB Creative Holdings LLC"
CERT_TYPES == {"CORE_AUTHORSHIP", "LOGIC_FRAGMENT", "DERIVATIVE"}
None == "None"

Tenths(x) == x * (SCALE \div 10)
Min(a, b) == IF a < b THEN a ELSE b
Max(a, b) == IF a > b THEN a ELSE b
Abs(a) == IF a < 0 THEN -a ELSE a
BoolInt(b) == IF b THEN 1 ELSE 0

RECURSIVE SumSeq(_)
SumSeq(s) == IF s = <<>> THEN 0 ELSE Head(s) + SumSeq(Tail(s))

\* statistics.mean of a non-empty list of scaled numbers
Mean(s) == SumSeq(s) \div Len(s)

\* round(x, 3): the scaled number x rounded to thousandths
Round3(x) == (x * 1000 + (SCALE \div 2)) \div SCALE

(* ------------------------- paragraphs and texts ----------------------- *)
\* ParagraphAnalysis records as _analyze_paragraph produces them, together
\* with the marker counts the STRIDE scans find in the same paragraph text.
\* Scores are in tenths.  Kinds: sound, plain, loaded, weak ending, brief,
\* exuberant with an open ending, exuberant with a resolved ending.
ParaKinds ==
  << [word_count |-> 88, slope_type |-> "DIAGNOSTIC",
      anchor_type |-> "SYNTHETIC_RATIONALE",
      logic_weight |-> 10, clause_density |-> 10, resolution_score |-> 8,
      rhetorical |-> 0, stylistic |-> 0, emotional |-> 0,
      persuasive |-> 0, rhythm |-> 0],
     [word_count |-> 60, slope_type |-> "THEORETICAL",
      anchor_type |-> "PRIMARY_SOURCE",
      logic_weight |-> 0, clause_density |-> 2, resolution_score |-> 5,
      rhetorical |-> 0, stylistic |-> 0, emotional |-> 1,
      persuasive |-> 0, rhythm |-> 0],
     [word_count |-> 70, slope_type |-> "PERSUASIVE",
      anchor_type |-> "SYNTHETIC_RATIONALE",
      logic_weight |-> 10, clause_density |-> 10, resolution_score |-> 8,
      rhetorical |-> 3, stylistic |-> 2, emotional |-> 2,
      persuasive |-> 3, rhythm |-> 2],
     [word_count |-> 50, slope_type |-> "COMPARATIVE",
      anchor_type |-> "CONTEXTUAL_RECALL",
      logic_weight |-> 6, clause_density |-> 6, resolution_score |-> 2,
      rhetorical |-> 1, stylistic |-> 0, emotional |-> 0,
      persuasive |-> 0, rhythm |-> 0],
     [word_count |-> 12, slope_type |-> "THEORETICAL",
      anchor_type |-> "PRIMARY_SOURCE",
      logic_weight |-> 0, clause_density |-> 0, resolution_score |-> 5,
      rhetorical |-> 0, stylistic |-> 0, emotional |-> 0,
      persuasive |-> 0, rhythm |-> 0],
     [word_count |-> 80, slope_type |-> "PERSUASIVE",
      anchor_type |-> "SYNTHETIC_RATIONALE",
      logic_weight |-> 6, clause_density |-> 10, resolution_score |-> 0,
      rhetorical |-> 10, stylistic |-> 1, emotional |-> 0,
      persuasive |-> 2, rhythm |-> 1],
     [word_count |-> 80, slope_type |-> "COMPARATIVE",
      anchor_type |-> "SYNTHETIC_RATIONALE",
      logic_weight |-> 5, clause_density |-> 10, resolution_score |-> 8,
      rhetorical |-> 10, stylistic |-> 1, emotional |-> 0,
      persuasive |-> 2, rhythm |-> 1] >>

NumKinds == Len(ParaKinds)

ParaSeqs(n) == UNION {[1..k -> 1..NumKinds] : k \in 0..n}

\* A text below 100 characters holds no paragraph of 50 words with words
\* that the scans recognise.
Contents ==
  {c \in [short : BOOLEAN, paras : ParaSeqs(MaxParas), variant : 0..MaxVariant] :
     c.short => \A i \in 1..Len(c.paras) :
                  ParaKinds[c.paras[i]].word_count < MIN_PARAGRAPH_MASS}

\* The texts submitted to the running system: one brief paragraph, one
\* sound paragraph, two sound paragraphs, two loaded paragraphs, each in
\* its first variant; the text of two sound paragraphs also in its second.
DocParas == {<<5>>, <<1>>, <<1, 1>>, <<3, 3>>}

Docs ==
  {c \in Contents :
     /\ c.paras \in DocParas
     /\ c.variant = 0 \/ (c.paras = <<1, 1>> /\ c.variant = 1)}

\* The requests of a caller: a cert type of the certification classes with
\* an author id, or a cert type outside them without one.
Sessions ==
  {[cert_type |-> "LOGIC_FRAGMENT", author_id |-> "a1"],
   [cert_type |-> "FULL_DOCUMENT", author_id |-> None]}

(* -------------------------------- CDP --------------------------------- *)
\* _extract_paragraphs + _analyze_paragraph for every surviving paragraph
ExtractParagraphs(content) ==
  SelectSeq([i \in 1..Len(content.paras) |-> ParaKinds[content.paras[i]]],
            LAMBDA p : p.word_count >= MIN_PARAGRAPH_MASS)

Field(ps, f) == [i \in 1..Len(ps) |-> Tenths(ps[i][f])]

\* variant of _calculate_structural_integrity that gives an empty list the
\* value _calculate_logic_continuity gives it
CalculateStructuralIntegrityEmptyFull(ps) ==
  IF ps = <<>> THEN SCALE
  ELSE (Mean(Field(ps, "logic_weight")) + Mean(Field(ps, "clause_density"))
        + Mean(Field(ps, "resolution_score"))) \div 3

CalculateStructuralIntegrity(ps) ==
  IF ps = <<>> THEN 0
  ELSE (Mean(Field(ps, "logic_weight")) + Mean(Field(ps, "clause_density"))
        + Mean(Field(ps, "resolution_score"))) \div 3

ParagraphContinuity(cur, nxt) ==
  LET slope_consistency == IF cur.slope_type = nxt.slope_type THEN SCALE ELSE SCALE \div 2
      weight_diff == Abs(Tenths(cur.logic_weight) - Tenths(nxt.logic_weight))
      weight_consistency == Max(0, SCALE - weight_diff)
      transition_score == (Tenths(cur.resolution_score) + Tenths(nxt.logic_weight)) \div 2
  IN (slope_consistency + weight_consistency + transition_score) \div 3

CalculateLogicContinuity(ps) ==
  IF Len(ps) < 2 THEN SCALE
  ELSE Mean([i \in 1..(Len(ps) - 1) |-> ParagraphContinuity(ps[i], ps[i + 1])])

\* variant of _assess_convergence that asks for two paragraphs
AssessConvergenceTwoParagraphs(ps) ==
  IF Len(ps) < 2 THEN FALSE
  ELSE /\ CalculateStructuralIntegrity(ps) >= CONVERGENCE_THRESHOLD
       /\ CalculateLogicContinuity(ps) >= CONVERGENCE_THRESHOLD
       /\ Tenths(ps[Len(ps)].resolution_score) >= CONVERGENCE_THRESHOLD

AssessConvergence(ps) ==
  IF ps = <<>> THEN FALSE
  ELSE /\ CalculateStructuralIntegrity(ps) >= CONVERGENCE_THRESHOLD
       /\ CalculateLogicContinuity(ps) >= CONVERGENCE_THRESHOLD
       /\ Tenths(ps[Len(ps)].resolution_score) >= CONVERGENCE_THRESHOLD

RECURSIVE CountOf(_, _)
CountOf(s, x) == IF s = <<>> THEN 0 ELSE BoolInt(Head(s) = x) + CountOf(Tail(s), x)

\* max over the slope counts; the first slope met wins a tie (dict order)
DetermineOverallSlope(ps) ==
  IF ps = <<>> THEN "THEORETICAL"
  ELSE LET slopes == [i \in 1..Len(ps) |-> ps[i].slope_type]
           best == CHOOSE i \in 1..Len(ps) :
                     /\ \A j \in 1..Len(ps) : CountOf(slopes, slopes[j]) <= CountOf(slopes, slopes[i])
                     /\ \A j \in 1..(i - 1) : CountOf(slopes, slopes[j]) < CountOf(slopes, slopes[i])
       IN slopes[best]

CDPProcess(content) ==
  LET ps == ExtractParagraphs(content)
  IN [paragraphs |-> ps,
      overall_slope |-> DetermineOverallSlope(ps),
      structural_integrity |-> CalculateStructuralIntegrity(ps),
      logic_continuity |-> CalculateLogicContinuity(ps),
      convergence_achieved |-> AssessConvergence(ps)]

(* ------------------------------- FRAME -------------------------------- *)
MIN_PARAGRAPHS == 2
MAX_PARAGRAPHS == 50
MIN_INTEGRITY == (5 * SCALE) \div 10
MIN_CONTINUITY == (4 * SCALE) \div 10

\* the violation list of _check_boundaries, by the kind of each violation
CheckBoundaries(cdp) ==
  LET n == Len(cdp.paragraphs)
  IN (IF n < MIN_PARAGRAPHS THEN <<"Insufficient paragraphs">>
      ELSE IF n > MAX_PARAGRAPHS THEN <<"Excessive paragraphs">> ELSE <<>>)
     \o (IF cdp.structural_integrity < MIN_INTEGRITY THEN <<"Low structural integrity">> ELSE <<>>)
     \o (IF cdp.logic_continuity < MIN_CONTINUITY THEN <<"Poor logic continuity">> ELSE <<>>)

CheckDescendingTaper(ps) ==
  IF Len(ps) < 3 THEN FALSE
  ELSE LET third == Max(1, Len(ps) \div 3)
           first_sum == SumSeq([i \in 1..third |-> ps[i].word_count])
           last_sum == SumSeq([i \in 1..third |-> ps[Len(ps) - third + i].word_count])
       IN 10 * last_sum <= 8 * first_sum

CheckResolutionTaper(ps) ==
  IF Len(ps) < 3 THEN FALSE
  ELSE LET n == Len(ps)
           prev_sum == SumSeq([i \in 1..(n - 1) |-> ps[i].logic_weight])
       IN ps[n].logic_weight * (n - 1) >= prev_sum

AnalyzeTaper(ps) ==
  IF Len(ps) < 3
  THEN [taper_achieved |-> FALSE, taper_score |-> Tenths(5),
        taper_pattern |-> "insufficient_length"]
  ELSE LET d == CheckDescendingTaper(ps)
           r == CheckResolutionTaper(ps)
           score == IF d /\ r THEN Tenths(9) ELSE IF d THEN Tenths(7)
                    ELSE IF r THEN Tenths(8) ELSE Tenths(3)
       IN [taper_achieved |-> score >= Tenths(6), taper_score |-> score,
           taper_pattern |-> IF d /\ r THEN "optimal_convergent"
                             ELSE IF d THEN "length_convergent"
                             ELSE IF r THEN "logic_convergent" ELSE "non_convergent"]

\* variant of _check_slope_resolution that looks at the final paragraph only
CheckSlopeResolutionFinalOnly(cdp) ==
  IF cdp.paragraphs = <<>> THEN FALSE
  ELSE Tenths(cdp.paragraphs[Len(cdp.paragraphs)].resolution_score) >= (6 * SCALE) \div 10

CheckSlopeResolution(cdp) ==
  IF ~cdp.convergence_achieved THEN FALSE
  ELSE IF cdp.paragraphs = <<>> THEN FALSE
  ELSE Tenths(cdp.paragraphs[Len(cdp.paragraphs)].resolution_score) >= (6 * SCALE) \div 10

\* variant of _calculate_structural_score that gives unsatisfied boundaries
\* no credit
CalculateStructuralScoreNoCredit(boundaries_satisfied, taper, slope_resolution) ==
  (4 * (IF boundaries_satisfied THEN SCALE ELSE 0)) \div 10
  + (3 * taper.taper_score) \div 10
  + (3 * (IF slope_resolution THEN SCALE ELSE (3 * SCALE) \div 10)) \div 10

CalculateStructuralScore(boundaries_satisfied, taper, slope_resolution) ==
  (4 * (IF boundaries_satisfied THEN SCALE ELSE SCALE \div 2)) \div 10
  + (3 * taper.taper_score) \div 10
  + (3 * (IF slope_resolution THEN SCALE ELSE (3 * SCALE) \div 10)) \div 10

FRAMEProcess(cdp) ==
  LET violations == CheckBoundaries(cdp)
      taper == AnalyzeTaper(cdp.paragraphs)
      slope_resolution == CheckSlopeResolution(cdp)
  IN [boundaries_satisfied |-> violations = <<>>,
      boundary_violations |-> violations,
      taper_analysis |-> taper,
      slope_resolution |-> slope_resolution,
      structural_score |-> CalculateStructuralScore(violations = <<>>, taper, slope_resolution)]

(* ------------------------------- STRIDE ------------------------------- *)
Counts(ps, f) == [i \in 1..Len(ps) |-> ps[i][f]]

AnalyzeTone(ps) ==
  LET objectivity == [i \in 1..Len(ps) |->
                        Max(0, SCALE - Tenths(ps[i].rhetorical + ps[i].stylistic))]
      persuasion == [i \in 1..Len(ps) |-> Min((ps[i].persuasive * SCALE) \div 5, SCALE)]
  IN [tone_neutrality |-> IF ps = <<>> THEN 0 ELSE Mean(objectivity),
      emotional_markers |-> SumSeq(Counts(ps, "emotional")),
      persuasion_intensity |-> IF ps = <<>> THEN 0 ELSE Mean(persuasion)]

AnalyzeRhythm(ps) ==
  LET score == Min(Tenths(SumSeq(Counts(ps, "rhythm"))), SCALE)
  IN [rhythm_score |-> score, rhythm_detected |-> score > (3 * SCALE) \div 10]

DetectDrift(ps, tone, rhythm) ==
  LET n == Len(ps)
      rhetorical_drift == SumSeq(Counts(ps, "rhetorical")) > n
      style_drift == 2 * SumSeq(Counts(ps, "stylistic")) > n
      emotional_drift == tone.emotional_markers > n
      factors == BoolInt(rhetorical_drift) + BoolInt(style_drift) + BoolInt(emotional_drift)
                 + BoolInt(rhythm.rhythm_detected)
                 + BoolInt(tone.persuasion_intensity > SCALE \div 2)
  IN [rhetorical_drift |-> rhetorical_drift, style_drift |-> style_drift,
      emotional_drift |-> emotional_drift,
      drift_severity |-> (factors * SCALE) \div 5]

\* variant of _needs_suppression without the drift severity trigger
NeedsSuppressionWithoutSeverity(tone, rhythm, drift) ==
  BoolInt(tone.tone_neutrality < (6 * SCALE) \div 10)
  + BoolInt(rhythm.rhythm_detected)
  + BoolInt(tone.persuasion_intensity > SCALE \div 2) >= 2

NeedsSuppression(tone, rhythm, drift) ==
  BoolInt(tone.tone_neutrality < (6 * SCALE) \div 10)
  + BoolInt(rhythm.rhythm_detected)
  + BoolInt(drift.drift_severity > (4 * SCALE) \div 10)
  + BoolInt(tone.persuasion_intensity > SCALE \div 2) >= 2

CalculateSuppressionScore(tone, rhythm, drift) ==
  (3 * (SCALE - tone.tone_neutrality)) \div 10
  + (2 * rhythm.rhythm_score) \div 10
  + (3 * drift.drift_severity) \div 10
  + (2 * tone.persuasion_intensity) \div 10

STRIDEProcess(cdp) ==
  LET tone == AnalyzeTone(cdp.paragraphs)
      rhythm == AnalyzeRhythm(cdp.paragraphs)
      drift == DetectDrift(cdp.paragraphs, tone, rhythm)
  IN [tone_analysis |-> tone, rhythm_analysis |-> rhythm, drift_detection |-> drift,
      suppression_needed |-> NeedsSuppression(tone, rhythm, drift),
      suppression_score |-> CalculateSuppressionScore(tone, rhythm, drift)]

(* --------------------------- score and gate --------------------------- *)
\* variant of _calculate_certification_score with the FRAME and STRIDE
\* weights exchanged
CalculateCertificationScoreSwappedWeights(cdp, frame, stride) ==
  LET cdp_score == (IF cdp.convergence_achieved THEN (4 * SCALE) \div 10 ELSE 0)
                   + (3 * cdp.structural_integrity) \div 10
                   + (3 * cdp.logic_continuity) \div 10
      frame_score == frame.structural_score
      stride_score == SCALE - stride.suppression_score
      total == (40 * cdp_score) \div 100 + (25 * frame_score) \div 100
               + (35 * stride_score) \div 100
  IN Min(Max(total, 0), SCALE)

CalculateCertificationScore(cdp, frame, stride) ==
  LET cdp_score == (IF cdp.convergence_achieved THEN (4 * SCALE) \div 10 ELSE 0)
                   + (3 * cdp.structural_integrity) \div 10
                   + (3 * cdp.logic_continuity) \div 10
      frame_score == frame.structural_score
      stride_score == SCALE - stride.suppression_score
      total == (40 * cdp_score) \div 100 + (35 * frame_score) \div 100
               + (25 * stride_score) \div 100
  IN Min(Max(total, 0), SCALE)

\* variant of _determine_certification_success without the boundaries test
DetermineCertificationSuccessNoBoundaries(cdp, frame, stride, score) ==
  IF score < CERTIFICATION_THRESHOLD THEN FALSE
  ELSE IF ~cdp.convergence_achieved THEN FALSE
  ELSE IF stride.drift_detection.drift_severity > SEVERE_DRIFT THEN FALSE
  ELSE TRUE

\* variant of _determine_certification_success without the drift test
DetermineCertificationSuccessNoDrift(cdp, frame, stride, score) ==
  IF score < CERTIFICATION_THRESHOLD THEN FALSE
  ELSE IF ~cdp.convergence_achieved THEN FALSE
  ELSE IF ~frame.boundaries_satisfied THEN FALSE
  ELSE TRUE

DetermineCertificationSuccess(cdp, frame, stride, score) ==
  IF score < CERTIFICATION_THRESHOLD THEN FALSE
  ELSE IF ~cdp.convergence_achieved THEN FALSE
  ELSE IF ~frame.boundaries_satisfied THEN FALSE
  ELSE IF stride.drift_detection.drift_severity > SEVERE_DRIFT THEN FALSE
  ELSE TRUE

\* steps 1-5 of certify_content: the three analyzers, the issues list, the
\* score and the gate decision
RunPipeline(content) ==
  LET cdp == CDPProcess(content)
      frame == FRAMEProcess(cdp)
      stride == STRIDEProcess(cdp)
      score == CalculateCertificationScore(cdp, frame, stride)
  IN [cdp |-> cdp, frame |-> frame, stride |-> stride,
      certification_score |-> score,
      success |-> DetermineCertificationSuccess(cdp, frame, stride, score),
      issues |-> (IF ~cdp.convergence_achieved
                  THEN <<"Content does not achieve logical convergence">> ELSE <<>>)
                 \o (IF ~frame.boundaries_satisfied THEN frame.boundary_violations ELSE <<>>)
                 \o (IF stride.suppression_needed
                     THEN <<"Content contains rhetorical drift requiring suppression">>
                     ELSE <<>>)]

\* the pipeline is a function of the text alone
PipelineOf == [c \in Contents |-> RunPipeline(c)]

(* -------------------------------- ICS --------------------------------- *)
HashLen == MaxParas + 3

\* _hash_content: a fixed-length digit string, injective on Contents
HashContent(content) ==
  [i \in 1..HashLen |->
     IF i = 1 THEN BoolInt(content.short)
     ELSE IF i = 2 THEN content.variant
     ELSE IF i = 3 THEN Len(content.paras)
     ELSE IF i - 3 <= Len(content.paras) THEN content.paras[i - 3] ELSE 0]

\* _hash_data: the digest of the canonical JSON of data
HashData(data) == <<HASH_ALGORITHM, data>>

\* get_genesis_hash: the versions and the operator are fixed strings, the
\* timestamp is the clock value read by this call
GetGenesisHash(clock) ==
  HashData([versions |-> <<"v3.0.1", "L1.3", "v1.0.3", "v1.0", "v1.1", CERTNODE_VERSION>>,
            operator |-> OPERATOR,
            timestamp |-> clock])

GenerateFingerprint(content, cdp, frame, stride) ==
  LET content_hash == HashContent(content)
      structure_hash ==
        HashData([overall_slope |-> cdp.overall_slope,
                  structural_integrity |-> cdp.structural_integrity,
                  logic_continuity |-> cdp.logic_continuity,
                  convergence_achieved |-> cdp.convergence_achieved,
                  paragraph_count |-> Len(cdp.paragraphs),
                  paragraph_slopes |-> [i \in 1..Len(cdp.paragraphs) |-> cdp.paragraphs[i].slope_type],
                  paragraph_anchors |-> [i \in 1..Len(cdp.paragraphs) |-> cdp.paragraphs[i].anchor_type]])
      logic_hash ==
        HashData([boundaries_satisfied |-> frame.boundaries_satisfied,
                  structural_score |-> frame.structural_score,
                  taper_achieved |-> frame.taper_analysis.taper_achieved,
                  slope_resolution |-> frame.slope_resolution,
                  suppression_score |-> stride.suppression_score,
                  tone_neutrality |-> stride.tone_analysis.tone_neutrality,
                  drift_severity |-> stride.drift_detection.drift_severity])
  IN [content_hash |-> content_hash,
      structure_hash |-> structure_hash,
      logic_hash |-> logic_hash,
      combined_hash |-> HashData([content_hash |-> content_hash,
                                  structure_hash |-> structure_hash,
                                  logic_hash |-> logic_hash,
                                  generator_version |-> CERTNODE_VERSION,
                                  algorithm |-> HASH_ALGORITHM]),
      fingerprint_algorithm |-> HASH_ALGORITHM]

NoSignature == <<>>

\* variant of _create_metadata whose id is not drawn fresh
CreateMetadataFixedId(cert_type, author_id, uuid, clock) ==
  [cert_id |-> 1,
   timestamp |-> clock,
   operator |-> OPERATOR,
   system_version |-> CERTNODE_VERSION,
   processing_versions |-> [CDP |-> "v1.0.3", FRAME |-> "v3.0.1", STRIDE |-> "L1.3"],
   content_type |-> cert_type,
   author_signature |-> IF author_id = None THEN NoSignature
                        ELSE <<"sha256[:16]", author_id>>]

\* _create_metadata: uuid is the fresh uuid4, clock the clock value read
CreateMetadata(cert_type, author_id, uuid, clock) ==
  [cert_id |-> uuid,
   timestamp |-> clock,
   operator |-> OPERATOR,
   system_version |-> CERTNODE_VERSION,
   processing_versions |-> [CDP |-> "v1.0.3", FRAME |-> "v3.0.1", STRIDE |-> "L1.3"],
   content_type |-> cert_type,
   author_signature |-> IF author_id = None THEN NoSignature
                        ELSE <<"sha256[:16]", author_id>>]

CreateAnalysisSummary(cdp, frame, stride) ==
  [cdp_analysis |->
     [overall_slope |-> cdp.overall_slope,
      structural_integrity |-> Round3(cdp.structural_integrity),
      logic_continuity |-> Round3(cdp.logic_continuity),
      convergence_achieved |-> cdp.convergence_achieved,
      total_paragraphs |-> Len(cdp.paragraphs)],
   frame_analysis |->
     [boundaries_satisfied |-> frame.boundaries_satisfied,
      structural_score |-> Round3(frame.structural_score),
      taper_achieved |-> frame.taper_analysis.taper_achieved,
      slope_resolution |-> frame.slope_resolution,
      violation_count |-> Len(frame.boundary_violations)],
   stride_analysis |->
     [suppression_needed |-> stride.suppression_needed,
      suppression_score |-> Round3(stride.suppression_score),
      tone_neutrality |-> Round3(stride.tone_analysis.tone_neutrality),
      drift_detected |-> stride.drift_detection.drift_severity > (4 * SCALE) \div 10,
      drift_severity |-> Round3(stride.drift_detection.drift_severity)]]

\* _generate_vault_anchor: clock is the clock value get_genesis_hash reads
GenerateVaultAnchor(fingerprint, metadata, clock) ==
  HashData([combined_hash |-> fingerprint.combined_hash,
            cert_id |-> metadata.cert_id,
            timestamp |-> metadata.timestamp,
            operator |-> metadata.operator,
            genesis_hash |-> GetGenesisHash(clock)])

\* _create_verification_data (the text statistics content_length,
\* word_count and paragraph_count are not kept by the model)
CreateVerificationData(fingerprint, metadata, clock) ==
  [verification_algorithm |-> fingerprint.fingerprint_algorithm,
   cert_type |-> metadata.content_type,
   processing_timestamp |-> metadata.timestamp,
   verification_url |-> <<"https://certnode.io/verify?hash=", fingerprint.combined_hash>>,
   badge_url |-> <<"https://certnode.io/badge?cert=", metadata.cert_id>>,
   vault_url |-> <<"https://certnode.io/vault?anchor=",
                   GenerateVaultAnchor(fingerprint, metadata, clock)>>]

GenerateSignature(content, run, cert_type, author_id, uuid, clock) ==
  LET fingerprint == GenerateFingerprint(content, run.cdp, run.frame, run.stride)
      metadata == CreateMetadata(cert_type, author_id, uuid, clock)
  IN [fingerprint |-> fingerprint,
      metadata |-> metadata,
      analysis_summary |-> CreateAnalysisSummary(run.cdp, run.frame, run.stride),
      vault_anchor |-> GenerateVaultAnchor(fingerprint, metadata, clock),
      verification_data |-> CreateVerificationData(fingerprint, metadata, clock)]

\* the forms of a timestamp string: an ISO string with a UTC offset is the
\* record [day, tick] of the clock value it was written from, an ISO string
\* without offset carries the field naive, any other string has no day
IsIsoFormat(timestamp) == "day" \in DOMAIN timestamp
HasUtcOffset(timestamp) == "naive" \notin DOMAIN timestamp

\* the timestamp part of verify_signature: fromisoformat raises ValueError
\* on a malformed string (caught by the inner handler), the subtraction
\* raises TypeError on a string without offset (caught by the outer handler)
CheckCertificateAge(timestamp, clock) ==
  IF ~IsIsoFormat(timestamp)
  THEN <<"Invalid timestamp format in certificate">>
  ELSE IF ~HasUtcOffset(timestamp)
  THEN <<"Verification error: can't subtract offset-naive and offset-aware datetimes">>
  ELSE IF clock.day - timestamp.day > MAX_AGE_DAYS
  THEN <<"Certificate is too old (> 5 years)">>
  ELSE <<>>

\* variant of verify_signature that returns at the first failed check
VerifySignatureFailFast(content, signature, clock) ==
  LET expected_combined_hash ==
        HashData([content_hash |-> signature.fingerprint.content_hash,
                  structure_hash |-> signature.fingerprint.structure_hash,
                  logic_hash |-> signature.fingerprint.logic_hash,
                  generator_version |-> signature.metadata.system_version,
                  algorithm |-> signature.fingerprint.fingerprint_algorithm])
      expected_vault_anchor ==
        GenerateVaultAnchor(signature.fingerprint, signature.metadata, clock)
      errors ==
        IF HashContent(content) # signature.fingerprint.content_hash
        THEN <<"Content hash mismatch - content has been modified">>
        ELSE IF expected_combined_hash # signature.fingerprint.combined_hash
        THEN <<"Combined hash verification failed - signature integrity compromised">>
        ELSE IF expected_vault_anchor # signature.vault_anchor
        THEN <<"Vault anchor verification failed">>
        ELSE CheckCertificateAge(signature.metadata.timestamp, clock)
  IN [valid |-> Len(errors) = 0, errors |-> errors]

\* verify_signature: the four checks in order, every failure appended
VerifySignature(content, signature, clock) ==
  LET expected_combined_hash ==
        HashData([content_hash |-> signature.fingerprint.content_hash,
                  structure_hash |-> signature.fingerprint.structure_hash,
                  logic_hash |-> signature.fingerprint.logic_hash,
                  generator_version |-> signature.metadata.system_version,
                  algorithm |-> signature.fingerprint.fingerprint_algorithm])
      expected_vault_anchor ==
        GenerateVaultAnchor(signature.fingerprint, signature.metadata, clock)
      errors ==
        (IF HashContent(content) # signature.fingerprint.content_hash
         THEN <<"Content hash mismatch - content has been modified">> ELSE <<>>)
        \o (IF expected_combined_hash # signature.fingerprint.combined_hash
            THEN <<"Combined hash verification failed - signature integrity compromised">>
            ELSE <<>>)
        \o (IF expected_vault_anchor # signature.vault_anchor
            THEN <<"Vault anchor verification failed">> ELSE <<>>)
        \o CheckCertificateAge(signature.metadata.timestamp, clock)
  IN [valid |-> Len(errors) = 0, errors |-> errors]

\* JSON text: an object is the list of its members <<key, value>> in
\* declaration order; None is written as null and read back as None
JsonNull == <<"null">>
ToJson(value) == IF value = NoSignature THEN JsonNull ELSE value
FromJson(json) == IF json = JsonNull THEN NoSignature ELSE json

\* export_signature_json: json.dumps(asdict(signature)); asdict turns the
\* two nested dataclasses into objects
ExportSignatureJson(signature) ==
  << <<"fingerprint",
       << <<"content_hash", signature.fingerprint.content_hash>>,
          <<"structure_hash", signature.fingerprint.structure_hash>>,
          <<"logic_hash", signature.fingerprint.logic_hash>>,
          <<"combined_hash", signature.fingerprint.combined_hash>>,
          <<"fingerprint_algorithm", signature.fingerprint.fingerprint_algorithm>> >> >>,
     <<"metadata",
       << <<"cert_id", signature.metadata.cert_id>>,
          <<"timestamp", signature.metadata.timestamp>>,
          <<"operator", signature.metadata.operator>>,
          <<"system_version", signature.metadata.system_version>>,
          <<"processing_versions", signature.metadata.processing_versions>>,
          <<"content_type", signature.metadata.content_type>>,
          <<"author_signature", ToJson(signature.metadata.author_signature)>> >> >>,
     <<"analysis_summary", signature.analysis_summary>>,
     <<"vault_anchor", signature.vault_anchor>>,
     <<"verification_data", signature.verification_data>> >>

JsonMember(json, key) == json[CHOOSE i \in 1..Len(json) : json[i][1] = key][2]

\* variant of import_signature_json that takes the author signature for absent
ImportSignatureJsonNoAuthor(json) ==
  LET fingerprint == JsonMember(json, "fingerprint")
      metadata == JsonMember(json, "metadata")
  IN [fingerprint |->
        [content_hash |-> JsonMember(fingerprint, "content_hash"),
         structure_hash |-> JsonMember(fingerprint, "structure_hash"),
         logic_hash |-> JsonMember(fingerprint, "logic_hash"),
         combined_hash |-> JsonMember(fingerprint, "combined_hash"),
         fingerprint_algorithm |-> JsonMember(fingerprint, "fingerprint_algorithm")],
      metadata |->
        [cert_id |-> JsonMember(metadata, "cert_id"),
         timestamp |-> JsonMember(metadata, "timestamp"),
         operator |-> JsonMember(metadata, "operator"),
         system_version |-> JsonMember(metadata, "system_version"),
         processing_versions |-> JsonMember(metadata, "processing_versions"),
         content_type |-> JsonMember(metadata, "content_type"),
         author_signature |-> NoSignature],
      analysis_summary |-> JsonMember(json, "analysis_summary"),
      vault_anchor |-> JsonMember(json, "vault_anchor"),
      verification_data |-> JsonMember(json, "verification_data")]

\* import_signature_json: ContentFingerprint(**data['fingerprint']),
\* CertificationMetadata(**data['metadata']) and the three other members
ImportSignatureJson(json) ==
  LET fingerprint == JsonMember(json, "fingerprint")
      metadata == JsonMember(json, "metadata")
  IN [fingerprint |->
        [content_hash |-> JsonMember(fingerprint, "content_hash"),
         structure_hash |-> JsonMember(fingerprint, "structure_hash"),
         logic_hash |-> JsonMember(fingerprint, "logic_hash"),
         combined_hash |-> JsonMember(fingerprint, "combined_hash"),
         fingerprint_algorithm |-> JsonMember(fingerprint, "fingerprint_algorithm")],
      metadata |->
        [cert_id |-> JsonMember(metadata, "cert_id"),
         timestamp |-> JsonMember(metadata, "timestamp"),
         operator |-> JsonMember(metadata, "operator"),
         system_version |-> JsonMember(metadata, "system_version"),
         processing_versions |-> JsonMember(metadata, "processing_versions"),
         content_type |-> JsonMember(metadata, "content_type"),
         author_signature |-> FromJson(JsonMember(metadata, "author_signature"))],
      analysis_summary |-> JsonMember(json, "analysis_summary"),
      vault_anchor |-> JsonMember(json, "vault_anchor"),
      verification_data |-> JsonMember(json, "verification_data")]

\* CertNodeProcessor.verify_certification
VerifyCertificationJson(content, signature_data, clock) ==
  VerifySignature(content, ImportSignatureJson(signature_data), clock)


(* ------------------------------- vault -------------------------------- *)
\* the fields and properties of an ICSSignature object
ICSSignatureAttributes ==
  {"fingerprint", "metadata", "analysis_summary", "vault_anchor",
   "verification_data", "cert_id", "timestamp", "cert_type", "to_dict"}

\* json.dumps accepts dicts, lists, strings, numbers, booleans and None;
\* the metadata of a signature is a CertificationMetadata dataclass object
JsonSerializableTypes == {"dict", "list", "str", "int", "float", "bool", "NoneType"}
MetadataType == "CertificationMetadata"

\* the schema of vault_entries: vault_anchor PRIMARY KEY, cert_id UNIQUE
IntegrityViolation(ldg, entry) ==
  \E i \in 1..Len(ldg) : \/ ldg[i].vault_anchor = entry.vault_anchor
                         \/ ldg[i].cert_id = entry.cert_id

\* variant of store_certification that inserts the row before it reads the
\* author signature
StoreCertificationInsertFirst(signature, ldg) ==
  [ret |-> FALSE, raised |-> FALSE, caught |-> "AttributeError",
   ledger |-> Append(ldg, [vault_anchor |-> signature.fingerprint.combined_hash,
                           cert_id |-> signature.metadata.cert_id,
                           ics_hash |-> signature.fingerprint.combined_hash,
                           content_hash |-> signature.fingerprint.content_hash,
                           timestamp |-> signature.metadata.timestamp,
                           cert_type |-> signature.metadata.content_type,
                           author_signature |-> None,
                           metadata |-> signature.metadata])]

\* variant of store_certification that catches sqlite3.IntegrityError only
StoreCertificationIntegrityOnly(signature, ldg) ==
  IF "author_signature" \notin ICSSignatureAttributes
  THEN [ret |-> FALSE, raised |-> TRUE, caught |-> "none", ledger |-> ldg]
  ELSE LET entry == [vault_anchor |-> signature.fingerprint.combined_hash,
                     cert_id |-> signature.metadata.cert_id,
                     ics_hash |-> signature.fingerprint.combined_hash,
                     content_hash |-> signature.fingerprint.content_hash,
                     timestamp |-> signature.metadata.timestamp,
                     cert_type |-> signature.metadata.content_type,
                     author_signature |-> signature.metadata.author_signature,
                     metadata |-> signature.metadata]
       IN IF MetadataType \notin JsonSerializableTypes
          THEN [ret |-> FALSE, raised |-> TRUE, caught |-> "none", ledger |-> ldg]
          ELSE IF IntegrityViolation(ldg, entry)
          THEN [ret |-> FALSE, raised |-> FALSE, caught |-> "IntegrityError", ledger |-> ldg]
          ELSE [ret |-> TRUE, raised |-> FALSE, caught |-> "none", ledger |-> Append(ldg, entry)]

\* store_certification: the value returned, whether an exception leaves the
\* call, the exception caught inside it, and the ledger after the call
StoreCertification(signature, ldg) ==
  IF "author_signature" \notin ICSSignatureAttributes
  THEN [ret |-> FALSE, raised |-> FALSE, caught |-> "AttributeError", ledger |-> ldg]
  ELSE LET entry == [vault_anchor |-> signature.fingerprint.combined_hash,
                     cert_id |-> signature.metadata.cert_id,
                     ics_hash |-> signature.fingerprint.combined_hash,
                     content_hash |-> signature.fingerprint.content_hash,
                     timestamp |-> signature.metadata.timestamp,
                     cert_type |-> signature.metadata.content_type,
                     author_signature |-> signature.metadata.author_signature,
                     metadata |-> signature.metadata]
       IN IF MetadataType \notin JsonSerializableTypes
          THEN [ret |-> FALSE, raised |-> FALSE, caught |-> "TypeError", ledger |-> ldg]
          ELSE IF IntegrityViolation(ldg, entry)
          THEN [ret |-> FALSE, raised |-> FALSE, caught |-> "IntegrityError", ledger |-> ldg]
          ELSE [ret |-> TRUE, raised |-> FALSE, caught |-> "none", ledger |-> Append(ldg, entry)]

\* retrieve_certification: the row with this cert_id (<<>> for None)
RetrieveCertification(ldg, cert_id) ==
  LET rows == SelectSeq(ldg, LAMBDA e : e.cert_id = cert_id)
  IN IF rows = <<>> THEN <<>> ELSE <<Head(rows)>>

\* VaultManager.verify_certification
VaultVerifyCertification(ldg, cert_id, content_hash) ==
  LET entry == RetrieveCertification(ldg, cert_id)
  IN IF entry = <<>> THEN FALSE ELSE entry[1].content_hash = content_hash

\* _calculate_drift_severity: Hamming distance of the two digests
CalculateDriftSeverity(original_hash, current_hash) ==
  IF Len(original_hash) # Len(current_hash) THEN SCALE
  ELSE LET differences == Cardinality({i \in 1..Len(original_hash) :
                                         original_hash[i] # current_hash[i]})
       IN Min((differences * SCALE) \div Len(original_hash), SCALE)

\* variant of detect_drift that records an alert for an id the vault does
\* not hold
DetectContentDriftAlertsUnknown(ldg, alrts, cert_id, current_content) ==
  [result |-> [kind |-> "error", error |-> "Certification not found"],
   alerts |-> Append(alrts, [cert_id |-> cert_id,
                             original_hash |-> HashContent(current_content),
                             current_hash |-> HashContent(current_content),
                             drift_severity |-> SCALE,
                             alert_type |-> "CONTENT_DRIFT",
                             resolved |-> FALSE])]

\* detect_drift with _store_drift_alert: the value returned and the alerts
\* table after the call
DetectContentDrift(ldg, alrts, cert_id, current_content) ==
  LET entry == RetrieveCertification(ldg, cert_id)
      current_hash == HashContent(current_content)
  IN IF entry = <<>>
     THEN [result |-> [kind |-> "error", error |-> "Certification not found"],
           alerts |-> alrts]
     ELSE IF current_hash # entry[1].content_hash
     THEN LET severity == CalculateDriftSeverity(entry[1].content_hash, current_hash)
          IN [result |-> [kind |-> "drift", drift_detected |-> TRUE,
                          original_hash |-> entry[1].content_hash,
                          current_hash |-> current_hash,
                          drift_severity |-> severity],
              alerts |-> Append(alrts, [cert_id |-> cert_id,
                                        original_hash |-> entry[1].content_hash,
                                        current_hash |-> current_hash,
                                        drift_severity |-> severity,
                                        alert_type |-> "CONTENT_DRIFT",
                                        resolved |-> FALSE])]
     ELSE [result |-> [kind |-> "no_drift", drift_detected |-> FALSE], alerts |-> alrts]

\* list_certifications: newest first
RECURSIVE Reverse(_)
Reverse(s) == IF s = <<>> THEN <<>> ELSE Reverse(Tail(s)) \o <<Head(s)>>

ListCertifications(ldg) ==
  Reverse([i \in 1..Len(ldg) |-> [cert_id |-> ldg[i].cert_id,
                                  timestamp |-> ldg[i].timestamp,
                                  cert_type |-> ldg[i].cert_type]])

GetCertificationCount(ldg) == Len(ldg)

(* ---------------------------- the system ------------------------------ *)
VARIABLES
  session,  \* the cert type and the author id the caller submits
  tick,     \* the clock: order of the clock reads within the behaviour
  nextId,   \* the next fresh uuid4
  certs,    \* the certificates issued so far, with the request they answer
  ledger,   \* table vault_entries, in insertion order
  alerts,   \* table drift_alerts, in insertion order
  last      \* the last call and what it returned

vars == <<session, tick, nextId, certs, ledger, alerts, last>>

Now == [day |-> 0, tick |-> tick]

FAILED == 0
ERROR == -1

Init ==
  /\ session \in Sessions
  /\ tick = 0
  /\ nextId = 1
  /\ certs = <<>>
  /\ ledger = <<>>
  /\ alerts = <<>>
  /\ last = [op |-> "none"]

CertIds == 1..MaxCerts

\* the result of the vault step of an entry point that does not store
NotStored(ldg) ==
  [ret |-> FALSE, raised |-> FALSE, caught |-> "none", ledger |-> ldg]

\* the steps of certify_content inside its try block; an exception raised
\* by one of them (statistics.mean of a paragraph without sentence in CDP,
\* a memory or file error anywhere) is the fault of a call
StageOrder == <<"CDP", "FRAME", "STRIDE", "scoring", "ICS">>

Stages == {StageOrder[i] : i \in 1..Len(StageOrder)}

\* the steps entered when the step stage raises
StagesUpTo(stage) ==
  {StageOrder[i] : i \in 1..(CHOOSE k \in 1..Len(StageOrder) : StageOrder[k] = stage)}

NoFault == "none"

\* the texts during whose certification a step raises: one the gate
\* accepts and one it refuses
FaultDocs == {c \in Docs : c.variant = 0 /\ c.paras \in {<<1, 1>>, <<3, 3>>}}

ProcessingError(stage) ==
  CASE stage = "CDP" -> "Processing error: CDP"
    [] stage = "FRAME" -> "Processing error: FRAME"
    [] stage = "STRIDE" -> "Processing error: STRIDE"
    [] stage = "scoring" -> "Processing error: scoring"
    [] OTHER -> "Processing error: ICS"

\* variant of the except block that reports no issue
ErrorResultNoIssue(stage) ==
  [success |-> FALSE, cert_id |-> ERROR, ics_signature |-> <<>>,
   cdp_result |-> <<>>, frame_result |-> <<>>, stride_result |-> <<>>,
   certification_score |-> 0, issues |-> <<>>]

\* the except block of certify_content; an absent member is <<>>
ErrorResult(stage) ==
  [success |-> FALSE, cert_id |-> ERROR, ics_signature |-> <<>>,
   cdp_result |-> <<>>, frame_result |-> <<>>, stride_result |-> <<>>,
   certification_score |-> 0, issues |-> <<ProcessingError(stage)>>]

\* variant of certify_content that generates the signature whatever the
\* gate decided
CertifyContentAlwaysSigns(run, signature, fault) ==
  IF fault \in {"CDP", "FRAME", "STRIDE", "scoring"} \/ (fault = "ICS" /\ run.success)
  THEN ErrorResult(fault)
  ELSE [success |-> run.success,
        cert_id |-> signature.metadata.cert_id,
        ics_signature |-> <<signature>>,
        cdp_result |-> <<run.cdp>>, frame_result |-> <<run.frame>>,
        stride_result |-> <<run.stride>>,
        certification_score |-> run.certification_score,
        issues |-> run.issues]

\* CertNodeProcessor.certify_content: the CertificationResult it returns,
\* from the outcome run of steps 1-5 and the signature step 6 generates for
\* it.  The ICS step runs only after a true gate decision, so a fault of
\* the ICS step cannot occur in a run the gate refused.
CertifyContent(run, signature, fault) ==
  IF fault \in {"CDP", "FRAME", "STRIDE", "scoring"} \/ (fault = "ICS" /\ run.success)
  THEN ErrorResult(fault)
  ELSE [success |-> run.success,
        cert_id |-> IF run.success THEN signature.metadata.cert_id ELSE FAILED,
        ics_signature |-> IF run.success THEN <<signature>> ELSE <<>>,
        cdp_result |-> <<run.cdp>>, frame_result |-> <<run.frame>>,
        stride_result |-> <<run.stride>>,
        certification_score |-> run.certification_score,
        issues |-> run.issues]

\* the response_data of CertNodeAPI.certify_content; vault_stored is the
\* value store_certification returned
ApiResponse(result, vault_stored) ==
  IF result.success /\ result.ics_signature # <<>>
  THEN [success |-> result.success, cert_id |-> result.cert_id,
        certification_score |-> Round3(result.certification_score),
        issues |-> result.issues,
        ics_hash |-> result.ics_signature[1].fingerprint.combined_hash,
        verification_url |-> result.ics_signature[1].verification_data.verification_url,
        badge_url |-> result.ics_signature[1].verification_data.badge_url,
        vault_anchor |-> result.ics_signature[1].vault_anchor,
        analysis_summary |-> result.ics_signature[1].analysis_summary,
        status_code |-> 200]
  ELSE [success |-> result.success, cert_id |-> result.cert_id,
        certification_score |-> Round3(result.certification_score),
        issues |-> result.issues, status_code |-> 422]

\* what CertNodeMain.quick_certify prints and returns
QuickCertifyOutput(result, vault_stored) ==
  IF result.success
  THEN [returned |-> TRUE, cert_id |-> result.cert_id,
        printed |-> <<"CERTIFIED", "Stored in vault">>]
  ELSE [returned |-> FALSE, cert_id |-> result.cert_id,
        printed |-> <<"FAILED">> \o SubSeq(result.issues, 1, Min(3, Len(result.issues)))]

\* what the caller of an entry point gets back
ResponseOf(entry, result, vault_stored) ==
  IF entry = "api" THEN ApiResponse(result, vault_stored)
  ELSE IF entry = "main" THEN QuickCertifyOutput(result, vault_stored)
  ELSE result

\* CertNodeProcessor.certify_content, followed by the caller's
\* store_certification when the entry point stores (with_store)
CertifyAndStore(entry, content, cert_type, author_id, with_store, fault) ==
  \E run \in {PipelineOf[content]} :
  \E signature \in {GenerateSignature(content, run, cert_type, author_id, nextId, Now)} :
  \E result \in {CertifyContent(run, signature, fault)} :
  \E issued \in {result.ics_signature # <<>>} :
  \E stored \in {IF result.success /\ issued /\ with_store
                 THEN StoreCertification(result.ics_signature[1], ledger)
                 ELSE NotStored(ledger)} :
     /\ issued => Len(certs) < MaxCerts
     /\ certs' = IF issued
                 THEN Append(certs, [content |-> content, cert_type |-> cert_type,
                                     author_id |-> author_id,
                                     signature |-> result.ics_signature[1]])
                 ELSE certs
     /\ nextId' = IF issued THEN nextId + 1 ELSE nextId
     /\ tick' = IF issued THEN tick + 1 ELSE tick
     /\ ledger' = stored.ledger
     /\ last' = [op |-> "certify", entry |-> entry, outcome |-> "completed",
                 short |-> content.short,
                 fault |-> fault,
                 gate |-> run.success,
                 invoked |-> IF result.cert_id = ERROR THEN StagesUpTo(fault)
                             ELSE IF issued THEN Stages ELSE Stages \ {"ICS"},
                 success |-> result.success,
                 cert_id |-> result.cert_id,
                 has_certificate |-> issued,
                 result |-> result,
                 store_called |-> result.success /\ issued /\ with_store,
                 vault_stored |-> stored.ret,
                 response |-> ResponseOf(entry, result, stored.ret),
                 response_if_stored |-> ResponseOf(entry, result, TRUE)]
     /\ UNCHANGED <<session, alerts>>

\* BadRequest: the request is rejected before the pipeline runs
ValidationError(entry, content) ==
  /\ last' = [op |-> "certify", entry |-> entry, outcome |-> "validation_error",
              short |-> content.short, invoked |-> {}, success |-> FALSE,
              cert_id |-> FAILED, has_certificate |-> FALSE]
  /\ UNCHANGED <<session, tick, nextId, certs, ledger, alerts>>

\* CertNodeProcessor.certify_content called directly (certify_file, tests)
ProcessorCertify ==
  \E content \in Docs, fault \in Stages \cup {NoFault} :
    /\ fault # NoFault => content \in FaultDocs
    /\ CertifyAndStore("processor", content, session.cert_type, session.author_id,
                       FALSE, fault)

\* CertNodeAPI.certify_content: POST /api/v1/certify
ApiCertify ==
  \E content \in Docs :
    IF content.short \/ session.cert_type \notin CERT_TYPES
    THEN ValidationError("api", content)
    ELSE CertifyAndStore("api", content, session.cert_type, session.author_id,
                         TRUE, NoFault)

\* CertNodeMain.quick_certify
QuickCertify ==
  \E content \in Docs :
    CertifyAndStore("main", content, "LOGIC_FRAGMENT", None, TRUE, NoFault)

\* ICSGenerator.verify_signature on an issued certificate
VerifyDirect ==
  \E i \in 1..Len(certs), content \in Docs :
    \E v \in {VerifySignature(content, certs[i].signature, Now)} :
       /\ last' = [op |-> "verify", via |-> "direct", cert |-> i,
                   unmodified |-> content = certs[i].content,
                   valid |-> v.valid, errors |-> v.errors]
       /\ UNCHANGED <<session, tick, nextId, certs, ledger, alerts>>

\* CertNodeProcessor.verify_certification on the exported certificate
VerifyExported ==
  \E i \in 1..Len(certs), content \in Docs :
    \E v \in {VerifyCertificationJson(content, ExportSignatureJson(certs[i].signature), Now)} :
       /\ last' = [op |-> "verify", via |-> "json", cert |-> i,
                   unmodified |-> content = certs[i].content,
                   valid |-> v.valid, errors |-> v.errors]
       /\ UNCHANGED <<session, tick, nextId, certs, ledger, alerts>>

\* VaultManager.store_certification of an issued certificate
Store ==
  \E i \in 1..Len(certs) :
    \E sig \in {certs[i].signature} :
    \E st \in {StoreCertification(sig, ledger)} :
       /\ ledger' = st.ledger
       /\ last' = [op |-> "store", cert |-> i,
                   collision |-> \E k \in 1..Len(ledger) :
                                   \/ ledger[k].cert_id = sig.metadata.cert_id
                                   \/ ledger[k].ics_hash = sig.fingerprint.combined_hash,
                   ret |-> st.ret, raised |-> st.raised, caught |-> st.caught,
                   appended |-> st.ledger # ledger]
       /\ UNCHANGED <<session, tick, nextId, certs, alerts>>

\* VaultManager.retrieve_certification
Retrieve ==
  \E cert_id \in CertIds :
    /\ last' = [op |-> "retrieve", cert_id |-> cert_id,
                entry |-> RetrieveCertification(ledger, cert_id)]
    /\ UNCHANGED <<session, tick, nextId, certs, ledger, alerts>>

\* VaultManager.verify_certification
VaultVerify ==
  \E cert_id \in CertIds, content \in Docs :
    /\ last' = [op |-> "vault_verify", cert_id |-> cert_id,
                verified |-> VaultVerifyCertification(ledger, cert_id, HashContent(content))]
    /\ UNCHANGED <<session, tick, nextId, certs, ledger, alerts>>

\* VaultManager.detect_drift
DetectDriftCall ==
  \E cert_id \in CertIds, content \in Docs :
    \E d \in {DetectContentDrift(ledger, alerts, cert_id, content)} :
       /\ Len(d.alerts) <= MaxAlerts
       /\ alerts' = d.alerts
       /\ last' = [op |-> "detect_drift", cert_id |-> cert_id,
                   unmodified |-> \E i \in 1..Len(certs) :
                                    /\ certs[i].signature.metadata.cert_id = cert_id
                                    /\ certs[i].content = content,
                   result |-> d.result,
                   alerts_before |-> Len(alerts)]
       /\ UNCHANGED <<session, tick, nextId, certs, ledger>>

\* VaultManager.list_certifications
List ==
  /\ last' = [op |-> "list", rows |-> ListCertifications(ledger)]
  /\ UNCHANGED <<session, tick, nextId, certs, ledger, alerts>>

\* VaultManager.get_certification_count
Count ==
  /\ last' = [op |-> "count", count |-> GetCertificationCount(ledger)]
  /\ UNCHANGED <<session, tick, nextId, certs, ledger, alerts>>

Next ==
  \/ ProcessorCertify
  \/ ApiCertify
  \/ QuickCertify
  \/ VerifyDirect
  \/ VerifyExported
  \/ Store
  \/ Retrieve
  \/ VaultVerify
  \/ DetectDriftCall
  \/ List
  \/ Count

Spec == Init /\ [][Next]_vars

(* --------------------- the analysis as a function --------------------- *)
\* the analyzers, the score and the gate applied to one text
InitPipeline ==
  /\ session \in {[cert_type |-> "LOGIC_FRAGMENT", author_id |-> None]}
  /\ tick = 0
  /\ nextId = 1
  /\ certs = <<>>
  /\ ledger = <<>>
  /\ alerts = <<>>
  /\ last \in [op : {"text"}, content : Contents]

Analyze ==
  /\ last.op = "text"
  /\ last' = [op |-> "analysis", content |-> last.content, run |-> RunPipeline(last.content)]
  /\ UNCHANGED <<session, tick, nextId, certs, ledger, alerts>>

NextPipeline == Analyze

SpecPipeline == InitPipeline /\ [][NextPipeline]_vars

(* ------------- verification of a presented certificate --------------- *)
\* A caller of verify_signature presents a text and a certificate object.
\* The certificate is one the system issued, as issued or with one or two
\* of its fields set to another value.
IssuedContent == CHOOSE c \in Docs : c.paras = <<1, 1>> /\ c.variant = 0

PresentedContents == {c \in Docs : c.paras = <<1, 1>>}

IssueClock == [day |-> 0, tick |-> 0]

\* a digest that is not the digest of the data it stands for
ForgedHash == HashData([forged |-> TRUE])

\* other timestamp strings: five years old to the day, one day older, not
\* an ISO string, an ISO string without UTC offset
PresentedTimestamps(timestamp) ==
  {[day |-> timestamp.day - MAX_AGE_DAYS, tick |-> timestamp.tick],
   [day |-> timestamp.day - MAX_AGE_DAYS - 1, tick |-> timestamp.tick],
   [text |-> "yesterday"],
   [day |-> timestamp.day, tick |-> timestamp.tick, naive |-> TRUE]}

\* the certificates that differ from signature in exactly one field; a
\* vault anchor may be any value, also the anchor _generate_vault_anchor
\* returns for this certificate at some clock value
FieldMutations(signature) ==
  {[signature EXCEPT !.fingerprint.content_hash = HashContent(c)] :
      c \in {d \in PresentedContents : HashContent(d) # signature.fingerprint.content_hash}}
  \cup {[signature EXCEPT !.fingerprint.structure_hash = ForgedHash] : x \in {h \in {ForgedHash} : h # signature.fingerprint.structure_hash}}
  \cup {[signature EXCEPT !.fingerprint.logic_hash = ForgedHash] : x \in {h \in {ForgedHash} : h # signature.fingerprint.logic_hash}}
  \cup {[signature EXCEPT !.fingerprint.combined_hash = ForgedHash] : x \in {h \in {ForgedHash} : h # signature.fingerprint.combined_hash}}
  \cup {[signature EXCEPT !.fingerprint.fingerprint_algorithm = a] : a \in {"md5"} \ {signature.fingerprint.fingerprint_algorithm}}
  \cup {[signature EXCEPT !.metadata.cert_id = signature.metadata.cert_id + 1]}
  \cup {[signature EXCEPT !.metadata.timestamp = t] :
          t \in IF IsIsoFormat(signature.metadata.timestamp) /\ HasUtcOffset(signature.metadata.timestamp)
                THEN PresentedTimestamps(signature.metadata.timestamp) ELSE {}}
  \cup {[signature EXCEPT !.metadata.operator = o] : o \in {"Another Operator"} \ {signature.metadata.operator}}
  \cup {[signature EXCEPT !.metadata.system_version = v] : v \in {"v0.9.0"} \ {signature.metadata.system_version}}
  \cup {[signature EXCEPT !.metadata.processing_versions = v] :
          v \in {[CDP |-> "v0", FRAME |-> "v0", STRIDE |-> "v0"]} \ {signature.metadata.processing_versions}}
  \cup {[signature EXCEPT !.metadata.content_type = t] : t \in {"DERIVATIVE"} \ {signature.metadata.content_type}}
  \cup {[signature EXCEPT !.metadata.author_signature = a] :
          a \in {<<"sha256[:16]", "a2">>} \ {signature.metadata.author_signature}}
  \cup {[signature EXCEPT !.analysis_summary.cdp_analysis.total_paragraphs = n] :
          n \in {MaxParas + 1} \ {signature.analysis_summary.cdp_analysis.total_paragraphs}}
  \cup {[signature EXCEPT !.vault_anchor = a] :
          a \in ({ForgedHash}
                 \cup {GenerateVaultAnchor(signature.fingerprint, signature.metadata,
                                           [day |-> 0, tick |-> k]) : k \in 1..MaxCerts})
                \ {signature.vault_anchor}}
  \cup {[signature EXCEPT !.verification_data.cert_type = t] :
          t \in {"DERIVATIVE"} \ {signature.verification_data.cert_type}}

PresentedCertificates(signature) ==
  {signature} \cup FieldMutations(signature)
  \cup UNION {FieldMutations(m) : m \in FieldMutations(signature)}

\* the certificate of IssuedContent was issued at IssueClock; the call
\* reads a later clock
InitPresented ==
  /\ session \in Sessions
  /\ tick \in 1..MaxCerts
  /\ nextId = 2
  /\ ledger = <<>>
  /\ alerts = <<>>
  /\ \E signature \in {GenerateSignature(IssuedContent, PipelineOf[IssuedContent],
                                         session.cert_type, session.author_id, 1, IssueClock)} :
       /\ certs = <<[content |-> IssuedContent, cert_type |-> session.cert_type,
                     author_id |-> session.author_id, signature |-> signature]>>
       /\ last \in [op : {"presented"}, content : PresentedContents,
                    certificate : PresentedCertificates(signature)]

\* ICSGenerator.verify_signature(content, certificate)
VerifyPresented ==
  /\ last.op = "presented"
  /\ \E v \in {VerifySignature(last.content, last.certificate, Now)} :
       last' = [op |-> "verified", content |-> last.content,
                certificate |-> last.certificate,
                valid |-> v.valid, errors |-> v.errors]
  /\ UNCHANGED <<session, tick, nextId, certs, ledger, alerts>>

\* export_signature_json, import_signature_json, and verification of the
\* certificate before and after the round trip
RoundTripPresented ==
  /\ last.op = "presented"
  /\ \E json \in {ExportSignatureJson(last.certificate)} :
       last' = [op |-> "round_trip", content |-> last.content,
                certificate |-> last.certificate,
                imported |-> ImportSignatureJson(json),
                verified |-> VerifySignature(last.content, last.certificate, Now),
                verified_json |-> VerifyCertificationJson(last.content, json, Now)]
  /\ UNCHANGED <<session, tick, nextId, certs, ledger, alerts>>

NextPresented ==
  \/ VerifyPresented
  \/ RoundTripPresented

SpecPresented == InitPresented /\ [][NextPresented]_vars

(* ------------------------------ properties ---------------------------- *)
HashMismatch == "Content hash mismatch - content has been modified"

CertIdOf(i) == certs[i].signature.metadata.cert_id

SameRequest(i, j) ==
  /\ certs[i].content = certs[j].content
  /\ certs[i].cert_type = certs[j].cert_type
  /\ certs[i].author_id = certs[j].author_id

\* C1: verifying the unmodified content against the unmodified issued
\* certificate, directly or through export and import, returns valid with
\* an empty error list (so the recomputed vault anchor equals the stored one).
C1_VerifyUnmodifiedValid ==
  (last.op = "verify" /\ last.unmodified) => (last.valid /\ last.errors = <<>>)

\* C2: two certificates issued for the same content, cert type and author
\* id carry the same content, structure, logic and combined hash, and carry
\* different ids and different timestamps.
C2_SameHashesFreshIds ==
  \A i \in 1..Len(certs) : \A j \in (i + 1)..Len(certs) :
    SameRequest(i, j) =>
      LET a == certs[i].signature
          b == certs[j].signature
      IN /\ a.fingerprint.content_hash = b.fingerprint.content_hash
         /\ a.fingerprint.structure_hash = b.fingerprint.structure_hash
         /\ a.fingerprint.logic_hash = b.fingerprint.logic_hash
         /\ a.fingerprint.combined_hash = b.fingerprint.combined_hash
         /\ a.metadata.cert_id # b.metadata.cert_id
         /\ a.metadata.timestamp # b.metadata.timestamp

\* two certificates have been issued for the same request
C2_TwoRunsSameRequest ==
  \E i \in 1..Len(certs) : \E j \in (i + 1)..Len(certs) : SameRequest(i, j)

\* C3: verifying a content that differs from the certified one against the
\* unmodified certificate returns invalid, and the error list holds the
\* content-hash-mismatch error and nothing else.
C3_ModifiedContentOnlyMismatch ==
  (last.op = "verify" /\ ~last.unmodified) =>
    (~last.valid /\ last.errors = <<HashMismatch>>)

\* C4: through every entry point, certify of a content below 100 characters
\* ends in a validation error, invokes no analyzer and no certificate
\* generator, and produces no certificate.
C4_ShortContentRejected ==
  (last.op = "certify" /\ last.short) =>
    /\ last.outcome = "validation_error"
    /\ last.invoked = {}
    /\ ~last.has_certificate

\* C5 as stated: a text with fewer than 2 qualifying paragraphs never has
\* convergence_achieved.
C5_FewParagraphsNoConvergence ==
  (last.op = "analysis" /\ Len(last.run.cdp.paragraphs) < 2) =>
    ~last.run.cdp.convergence_achieved

\* C5 amended: a text with no qualifying paragraph never has
\* convergence_achieved; a text with exactly one has it exactly when its
\* structural integrity and the paragraph's resolution score are both at
\* least 0.6.
C5_ConvergenceBelowTwoParagraphs ==
  last.op = "analysis" =>
    LET cdp == last.run.cdp
    IN /\ Len(cdp.paragraphs) = 0 => ~cdp.convergence_achieved
       /\ Len(cdp.paragraphs) = 1 =>
            (cdp.convergence_achieved <=>
               /\ cdp.structural_integrity >= (6 * SCALE) \div 10
               /\ Tenths(cdp.paragraphs[1].resolution_score) >= (6 * SCALE) \div 10)

\* a text with a single qualifying paragraph was analysed and converges
C5_SingleParagraphConverges ==
  /\ last.op = "analysis"
  /\ Len(last.run.cdp.paragraphs) = 1
  /\ last.run.cdp.convergence_achieved

\* C6: success is reported exactly when the score is at least 0.7, CDP
\* convergence is achieved, the FRAME boundaries are satisfied and the
\* STRIDE drift severity is at most 0.7.
C6_GateIsConjunction ==
  last.op = "analysis" =>
    (last.run.success <=>
       /\ last.run.certification_score >= (7 * SCALE) \div 10
       /\ last.run.cdp.convergence_achieved
       /\ last.run.frame.boundaries_satisfied
       /\ last.run.stride.drift_detection.drift_severity <= (7 * SCALE) \div 10)

\* a text that fails on the drift severity alone was analysed
C6_DriftAloneFails ==
  /\ last.op = "analysis"
  /\ last.run.certification_score >= (7 * SCALE) \div 10
  /\ last.run.cdp.convergence_achieved
  /\ last.run.frame.boundaries_satisfied
  /\ last.run.stride.drift_detection.drift_severity > (7 * SCALE) \div 10
  /\ ~last.run.success

\* C7: storing an issued certificate into a vault that holds no entry with
\* its id or hash returns true; afterwards retrieve by its id returns an
\* entry with that id and the certification count is at least 1.
C7_StoreThenRetrieve ==
  (last.op = "store" /\ ~last.collision) =>
    /\ last.ret
    /\ LET entry == RetrieveCertification(ledger, CertIdOf(last.cert))
       IN entry # <<>> /\ entry[1].cert_id = CertIdOf(last.cert)
    /\ GetCertificationCount(ledger) >= 1

C10_DriftOfStoredCertificate ==
  [][(/\ last.op = "store"
      /\ ~last.collision
      /\ last'.op = "detect_drift"
      /\ last'.cert_id = CertIdOf(last.cert)) =>
       IF last'.unmodified
       THEN last'.result.kind = "no_drift" /\ alerts' = alerts
       ELSE /\ last'.result.kind = "drift"
            /\ last'.result.drift_severity > 0
            /\ \E k \in 1..Len(alerts') :
                 /\ alerts'[k].cert_id = last'.cert_id
                 /\ alerts'[k].original_hash = last'.result.original_hash
                 /\ alerts'[k].current_hash = last'.result.current_hash]_vars

\* the check a verification message reports: 1 content hash, 2 combined
\* hash, 3 vault anchor, 4 timestamp
ErrorRank(message) ==
  IF message = HashMismatch THEN 1
  ELSE IF message = "Combined hash verification failed - signature integrity compromised" THEN 2
  ELSE IF message = "Vault anchor verification failed" THEN 3
  ELSE 4

\* C12: verification does not stop at the first failed check: the error
\* list holds one message for every check that fails on the presented text
\* and certificate, in the order content hash, combined hash, vault anchor,
\* timestamp, and the certificate is valid exactly when the list is empty.
C12_VerifyCollectsAllErrors ==
  last.op = "verified" =>
    LET sig == last.certificate
        failing ==
          {k \in 1..4 :
             \/ k = 1 /\ HashContent(last.content) # sig.fingerprint.content_hash
             \/ k = 2 /\ sig.fingerprint.combined_hash #
                           HashData([content_hash |-> sig.fingerprint.content_hash,
                                     structure_hash |-> sig.fingerprint.structure_hash,
                                     logic_hash |-> sig.fingerprint.logic_hash,
                                     generator_version |-> sig.metadata.system_version,
                                     algorithm |-> sig.fingerprint.fingerprint_algorithm])
             \/ k = 3 /\ sig.vault_anchor # GenerateVaultAnchor(sig.fingerprint, sig.metadata, Now)
             \/ k = 4 /\ \/ "day" \notin DOMAIN sig.metadata.timestamp
                         \/ "naive" \in DOMAIN sig.metadata.timestamp
                         \/ Now.day - sig.metadata.timestamp.day > MAX_AGE_DAYS}
    IN /\ last.valid <=> last.errors = <<>>
       /\ {ErrorRank(last.errors[i]) : i \in 1..Len(last.errors)} = failing
       /\ \A i, j \in 1..Len(last.errors) :
            i < j => ErrorRank(last.errors[i]) < ErrorRank(last.errors[j])

\* witness of C12: a verification in which all four checks failed
C12_AllFourChecksFail ==
  /\ last.op = "verified"
  /\ Len(last.errors) = 4

\* C13: verification detects any mutation of a certificate: when a field
\* of an issued certificate (a fingerprint hash, the id, timestamp,
\* operator, content type or author signature of the metadata, the analysis
\* summary, the vault anchor, the verification data) has been changed to
\* another value, verifying the original text against the changed
\* certificate returns invalid.
C13_MutationDetected ==
  (/\ last.op = "verified"
   /\ last.content = certs[1].content
   /\ last.certificate # certs[1].signature)
  => ~last.valid

\* C14: the genesis hash is one value for the whole process: a call made
\* now returns the value the call at issuance returned, so the vault anchor
\* is a function of the combined hash, the certificate id, the timestamp
\* and the operator, and recomputing it for an issued certificate gives the
\* stored anchor.
C14_GenesisHashConstant ==
  \A i \in 1..Len(certs) :
    /\ GetGenesisHash(Now) = GetGenesisHash(certs[i].signature.metadata.timestamp)
    /\ GenerateVaultAnchor(certs[i].signature.fingerprint,
                           certs[i].signature.metadata, Now)
         = certs[i].signature.vault_anchor

\* the reasons the gate can refuse a text: the score, the convergence, the
\* boundaries, the drift
FailingConditions(run) ==
  (IF run.certification_score < CERTIFICATION_THRESHOLD THEN {"score"} ELSE {})
  \cup (IF ~run.cdp.convergence_achieved THEN {"convergence"} ELSE {})
  \cup (IF ~run.frame.boundaries_satisfied THEN {"boundaries"} ELSE {})
  \cup (IF run.stride.drift_detection.drift_severity > SEVERE_DRIFT THEN {"drift"} ELSE {})

\* C17: a text that fails the gate is answered with data, not with an
\* error: the result carries the score and the results of the three
\* analyzers, and its issues list is not empty, so it names at least one
\* failing condition.
C17_GateFailureHasIssues ==
  (last.op = "analysis" /\ ~last.run.success) =>
    /\ FailingConditions(last.run) # {}
    /\ last.run.issues # <<>>

\* C15: a result carries a certificate exactly when its success flag is
\* true, and no certificate id is generated for a run the gate refused:
\* every issued certificate belongs to a text that passes the gate, as many
\* ids were drawn as certificates were issued, and a refused run returns
\* the id FAILED (or ERROR) and no certificate.
C15_CertificateIffSuccess ==
  /\ \A i \in 1..Len(certs) : PipelineOf[certs[i].content].success
  /\ nextId = Len(certs) + 1
  /\ (last.op = "certify" /\ last.outcome = "completed") =>
       /\ (last.result.ics_signature # <<>>) <=> last.result.success
       /\ ~last.gate => /\ last.result.ics_signature = <<>>
                        /\ last.result.cert_id \in {FAILED, ERROR}

\* witness of C15: the gate refused a text and the result came back
\* without fault
C15_RefusedRunReturned ==
  /\ last.op = "certify"
  /\ last.outcome = "completed"
  /\ last.fault = NoFault
  /\ ~last.gate
  /\ last.result.cert_id = FAILED

\* C16: an exception raised inside a stage of the pipeline (CDP, FRAME,
\* STRIDE, scoring, ICS generation) does not leave certify_content: the
\* call returns a result with success false, no certificate, no analyzer
\* result, score 0 and exactly one issue.
C16_StageExceptionReturnsErrorResult ==
  (/\ last.op = "certify"
   /\ last.outcome = "completed"
   /\ last.fault # NoFault
   /\ (last.fault = "ICS" => last.gate))
  => /\ ~last.result.success
     /\ last.result.ics_signature = <<>>
     /\ last.result.cdp_result = <<>>
     /\ last.result.frame_result = <<>>
     /\ last.result.stride_result = <<>>
     /\ last.result.certification_score = 0
     /\ Len(last.result.issues) = 1

\* witness of C16: the ICS step raised after the gate had accepted the text
C16_IcsStepRaised ==
  /\ last.op = "certify"
  /\ last.fault = "ICS"
  /\ last.gate
  /\ last.result.cert_id = ERROR

\* C18: a failed vault write does not change the outcome of the
\* certification: the result is still a success with its certificate, and
\* what the caller gets back tells it that the write did not occur, that
\* is, it differs from what the caller gets back after a write that occurred.
C18_FailedStoreReported ==
  (/\ last.op = "certify"
   /\ last.outcome = "completed"
   /\ last.store_called
   /\ ~last.vault_stored)
  => /\ last.success
     /\ last.has_certificate
     /\ last.response # last.response_if_stored

\* C19: export to JSON followed by import is lossless: the imported
\* certificate equals the exported one field for field (fingerprint,
\* metadata, analysis summary, vault anchor, verification data), and
\* verifying a text against the imported certificate gives the same
\* result and the same errors as verifying it against the original.
C19_JsonRoundTripLossless ==
  last.op = "round_trip" =>
    /\ last.imported.fingerprint = last.certificate.fingerprint
    /\ last.imported.metadata = last.certificate.metadata
    /\ last.imported.analysis_summary = last.certificate.analysis_summary
    /\ last.imported.vault_anchor = last.certificate.vault_anchor
    /\ last.imported.verification_data = last.certificate.verification_data
    /\ last.verified_json = last.verified

\* witness of C19: a certificate without author signature (null in the
\* JSON text) went through export and import
C19_NullAuthorRoundTrip ==
  /\ last.op = "round_trip"
  /\ last.certificate.metadata.author_signature = NoSignature
  /\ last.imported.metadata.author_signature = NoSignature

\* C20: a drift check that finds a mismatch against a stored entry creates
\* a DriftAlert every time: after a certificate has been stored, a drift
\* check of that id with another text adds one alert.  Alerts are never
\* deleted: in every step the alert list keeps its entries, which change
\* at most in their resolved flag, and only grows.
C20_AlertOnEveryMismatch ==
  [][/\ Len(alerts') >= Len(alerts)
     /\ \A k \in 1..Len(alerts) :
          [alerts'[k] EXCEPT !.resolved = FALSE] = [alerts[k] EXCEPT !.resolved = FALSE]
     /\ (/\ last.op = "store"
         /\ ~last.collision
         /\ last'.op = "detect_drift"
         /\ last'.cert_id = CertIdOf(last.cert)
         /\ ~last'.unmodified)
        => Len(alerts') = Len(alerts) + 1]_vars

\* C21: a certificate stored into a vault that holds neither its vault
\* anchor nor its id leaves a ledger entry with its id whose vault_anchor
\* field is the certificate's vault_anchor, and store reports a uniqueness
\* collision only when that anchor or that id is already in the ledger.
C21_EntryKeyedByVaultAnchor ==
  [][last'.op = "store" =>
       \E sig \in {certs[last'.cert].signature} :
         \E held \in {\E k \in 1..Len(ledger) :
                        \/ ledger[k].vault_anchor = sig.vault_anchor
                        \/ ledger[k].cert_id = sig.metadata.cert_id} :
           /\ ~held => \E k \in 1..Len(ledger') :
                         /\ ledger'[k].cert_id = sig.metadata.cert_id
                         /\ ledger'[k].vault_anchor = sig.vault_anchor
           /\ last'.caught = "IntegrityError" => held]_vars

(* ------------- the two consumers of the CDP result, in any order -------- *)
\* certify_content hands the same CDPResult object to FRAME and to STRIDE.
\* Each call is modelled with the object it leaves behind, and the two
\* calls are taken in either order before the score and the gate.

\* variant of FRAME's process_content that pops the last paragraph off the
\* list it was given
FrameProcessContentPopping(cdp_result) ==
  [result |-> FRAMEProcess(cdp_result),
   cdp_result |-> [cdp_result EXCEPT !.paragraphs =
                     IF @ = <<>> THEN @ ELSE SubSeq(@, 1, Len(@) - 1)]]

\* FRAMEProcessor.process_content: reads the CDP result, assigns to locals only
FrameProcessContent(cdp_result) ==
  [result |-> FRAMEProcess(cdp_result), cdp_result |-> cdp_result]

\* STRIDEProcessor.process_content: reads the CDP result, assigns to locals only
StrideProcessContent(cdp_result) ==
  [result |-> STRIDEProcess(cdp_result), cdp_result |-> cdp_result]

InitAnalyzers ==
  /\ session \in {[cert_type |-> "LOGIC_FRAGMENT", author_id |-> None]}
  /\ tick = 0
  /\ nextId = 1
  /\ certs = <<>>
  /\ ledger = <<>>
  /\ alerts = <<>>
  /\ last \in {[op |-> "cdp", content |-> c, cdp |-> CDPProcess(c),
                frame |-> <<>>, stride |-> <<>>, order |-> <<>>,
                certification_score |-> <<>>, success |-> <<>>] : c \in Contents}

\* step 2 of certify_content
FrameAnalysis ==
  /\ last.op = "cdp"
  /\ last.frame = <<>>
  /\ \E r \in {FrameProcessContent(last.cdp)} :
       last' = [last EXCEPT !.frame = <<r.result>>, !.cdp = r.cdp_result,
                            !.order = Append(@, "FRAME")]
  /\ UNCHANGED <<session, tick, nextId, certs, ledger, alerts>>

\* step 3 of certify_content
StrideAnalysis ==
  /\ last.op = "cdp"
  /\ last.stride = <<>>
  /\ \E r \in {StrideProcessContent(last.cdp)} :
       last' = [last EXCEPT !.stride = <<r.result>>, !.cdp = r.cdp_result,
                            !.order = Append(@, "STRIDE")]
  /\ UNCHANGED <<session, tick, nextId, certs, ledger, alerts>>

\* steps 4 and 5 of certify_content
Scoring ==
  /\ last.op = "cdp"
  /\ last.frame # <<>>
  /\ last.stride # <<>>
  /\ \E score \in {CalculateCertificationScore(last.cdp, last.frame[1], last.stride[1])} :
       last' = [last EXCEPT !.op = "scored",
                            !.certification_score = <<score>>,
                            !.success = <<DetermineCertificationSuccess(
                                            last.cdp, last.frame[1], last.stride[1], score)>>]
  /\ UNCHANGED <<session, tick, nextId, certs, ledger, alerts>>

NextAnalyzers ==
  \/ FrameAnalysis
  \/ StrideAnalysis
  \/ Scoring

SpecAnalyzers == InitAnalyzers /\ [][NextAnalyzers]_vars

\* C22: whichever of FRAME and STRIDE runs first, the CDP result stays the
\* one CDP produced, and the FRAME result, the STRIDE result, the score and
\* the gate decision are those of the run that takes FRAME first.
C22_AnalyzerOrderIrrelevant ==
  /\ last.cdp = CDPProcess(last.content)
  /\ last.frame # <<>> => last.frame[1] = PipelineOf[last.content].frame
  /\ last.stride # <<>> => last.stride[1] = PipelineOf[last.content].stride
  /\ last.op = "scored" =>
       /\ last.certification_score[1] = PipelineOf[last.content].certification_score
       /\ last.success[1] = PipelineOf[last.content].success

\* a text that passes the gate was scored with STRIDE run before FRAME
C22_StrideFirstScored ==
  /\ last.op = "scored"
  /\ last.order = <<"STRIDE", "FRAME">>
  /\ last.success = <<TRUE>>
  /\ last.stride[1].suppression_needed

C24_ScoreIsWeightedSum ==
  last.op = "analysis" =>
    LET run == last.run
        exact == 160 * BoolInt(run.cdp.convergence_achieved) * SCALE
                 + 120 * run.cdp.structural_integrity
                 + 120 * run.cdp.logic_continuity
                 + 350 * run.frame.structural_score
                 + 250 * (SCALE - run.stride.suppression_score)
    IN /\ exact - 1000 * run.certification_score \in 0..3999
       /\ run.certification_score \in 0..SCALE

\* a converging text with a suppression score above 0 and integrity and
\* continuity below 1 was scored
C24_AllTermsContribute ==
  /\ last.op = "analysis"
  /\ last.run.cdp.convergence_achieved
  /\ last.run.cdp.structural_integrity \in 1..(SCALE - 1)
  /\ last.run.cdp.logic_continuity \in 1..(SCALE - 1)
  /\ last.run.stride.suppression_score \in 1..(SCALE - 1)
  /\ last.run.frame.structural_score \in 1..(SCALE - 1)

\* C25: for every analysed text FRAME's slope_resolution has the value of
\* CDP's convergence_achieved.
C25_SlopeResolutionIsConvergence ==
  last.op = "analysis" =>
    last.run.frame.slope_resolution = last.run.cdp.convergence_achieved

\* a text whose final paragraph resolves strongly was analysed and found
\* not to converge
C25_StrongEndingWithoutConvergence ==
  /\ last.op = "analysis"
  /\ last.run.cdp.paragraphs # <<>>
  /\ Tenths(last.run.cdp.paragraphs[Len(last.run.cdp.paragraphs)].resolution_score)
       >= CONVERGENCE_THRESHOLD
  /\ ~last.run.cdp.convergence_achieved
  /\ ~last.run.frame.slope_resolution

C27_ClampNeverActive ==
  last.op = "analysis" =>
    LET run == last.run
        cdp_component == 4 * BoolInt(run.cdp.convergence_achieved) * SCALE
                         + 3 * run.cdp.structural_integrity
                         + 3 * run.cdp.logic_continuity
        unclamped == 40 * cdp_component + 350 * run.frame.structural_score
                     + 250 * (SCALE - run.stride.suppression_score)
    IN /\ 100 * run.frame.structural_score >= 38 * SCALE
       /\ 100 * run.frame.structural_score <= 97 * SCALE
       /\ run.stride.suppression_score \in 0..SCALE
       /\ cdp_component \in 0..(10 * SCALE)
       /\ unclamped \in 0..(1000 * SCALE)

\* a text with the lowest structural score, 0.38, and a text-wide
\* suppression score above 0 was analysed
C27_LowestStructuralScore ==
  /\ last.op = "analysis"
  /\ 100 * last.run.frame.structural_score = 38 * SCALE
  /\ last.run.stride.suppression_score > 0
  /\ ~last.run.frame.boundaries_satisfied

\* C28: a store call that returns false leaves the ledger, entry by entry
\* and field by field, and the drift alerts as they were before the call.
C28_FailedStoreChangesNothing ==
  [][(last'.op = "store" /\ ~last'.ret) =>
       /\ ledger' = ledger
       /\ alerts' = alerts]_vars

\* a store call for the second issued certificate returned false and
\* appended nothing
C28_SecondStoreReturnedFalse ==
  /\ last.op = "store"
  /\ last.cert = 2
  /\ ~last.ret
  /\ ~last.appended

\* C29: a certify_content call of the processor leaves the ledger and the
\* alerts unchanged; while the ledger holds no entry for an issued
\* certificate's id, detect_drift for that id returns the error
\* 'Certification not found' and adds no alert, and verify_certification
\* of the vault for that id returns false.
C29_CertifyNeverWritesVault ==
  [][/\ (last'.op = "certify" /\ last'.entry = "processor") =>
          /\ ledger' = ledger
          /\ alerts' = alerts
     /\ (/\ last'.op \in {"detect_drift", "vault_verify"}
         /\ \E i \in 1..Len(certs) : CertIdOf(i) = last'.cert_id
         /\ \A k \in 1..Len(ledger) : ledger[k].cert_id # last'.cert_id) =>
          IF last'.op = "detect_drift"
          THEN /\ last'.result = [kind |-> "error", error |-> "Certification not found"]
               /\ alerts' = alerts
          ELSE ~last'.verified]_vars

\* detect_drift was called with the certified text for the id of a
\* certificate that certify_content issued and no caller stored
C29_DriftOfUnstoredCertificate ==
  /\ last.op = "detect_drift"
  /\ last.unmodified
  /\ \E i \in 1..Len(certs) : CertIdOf(i) = last.cert_id
  /\ ledger = <<>>
  /\ last.result.kind = "error"

\* C30: every analysed text for which the gate decides success has between
\* 2 and 50 qualifying paragraphs, and its issues list holds nothing but the
\* drift-suppression issue, which it holds only when suppression_needed is
\* true with a drift severity of at most 0.7.
C30_SuccessHasPassedBoundaries ==
  (last.op = "analysis" /\ last.run.success) =>
    /\ Len(last.run.cdp.paragraphs) \in MIN_PARAGRAPHS..MAX_PARAGRAPHS
    /\ \A i \in 1..Len(last.run.issues) :
         /\ last.run.issues[i] = "Content contains rhetorical drift requiring suppression"
         /\ last.run.stride.suppression_needed
         /\ last.run.stride.drift_detection.drift_severity <= SEVERE_DRIFT
    /\ Len(last.run.issues) <= 1

\* a text was certified with the drift-suppression issue in its issues list
C30_CertifiedWithSuppressionIssue ==
  /\ last.op = "analysis"
  /\ last.run.success
  /\ last.run.issues = <<"Content contains rhetorical drift requiring suppression">>
  /\ Len(last.run.cdp.paragraphs) >= MIN_PARAGRAPHS

=============================================================================
